---- MODULE Spec2Model ----
(***************************************************************************)
(* The private blockchain of src/src/blockchain.js as a state machine.     *)
(*                                                                         *)
(* Every public method wraps its work in a Promise.  The synchronous part  *)
(* of a call runs when the call is made; the part of _addBlock after       *)
(* `await self.validateChain()` runs one microtask later.  Microtasks run  *)
(* in FIFO order, so the continuations of the appends in flight form a     *)
(* queue (pending); other calls may be made between two continuations.     *)
(*                                                                         *)
(* block.js is not part of the sources; Block, validate and getBData are   *)
(* modelled from the specification (sections 3 and 4.1).                   *)
(***************************************************************************)
EXTENDS Integers, Sequences, FiniteSets, TLC

(* ------------------------------ bounds --------------------------------- *)
\* blocks in the chain plus appends in flight
MaxChain == 3
\* appends in flight at once
MaxPending == 2
\* external mutations of committed blocks
MaxMutations == 2

(* --------------------------- program constants ------------------------- *)
\* const timeLapseAllowed = 5 * 60
timeLapseAllowed == 300
\* this.height = -1
EmptyHeight == -1

(* ------------------------------ values --------------------------------- *)
\* null / undefined hash
Null == << >>
\* an absent payload field
Undefined == 0
\* the string 'Genesis Block'
GenesisText == 1
\* the star object of a submission
StarData == 1
\* parseInt of a missing or non-numeric field
NaN == -1000000
\* a message field that is not a number
NonNumeric == -2000000
\* the literal 'starRegistry'
RegistryTag == -3000000
\* a hash value no block of the chain has
ForeignHash == <<NonNumeric>>

\* wallet addresses
Addresses == {1, 2}
\* the issuance times of the messages submitted
IssuedTimes == {0}
\* the times the clock shows: the start, the last second of the validity
\* window and the first second past it
ClockTimes == {0, timeLapseAllowed, timeLapseAllowed + 1}

(* ------------------------- Block (block.js) ---------------------------- *)
\* the payload {data: 'Genesis Block'}
GenesisPayload == [data |-> GenesisText, star |-> Undefined, owner |-> Undefined]
\* the payload {star: star, owner: address}
StarPayload(star, address) == [data |-> Undefined, star |-> star, owner |-> address]

\* the reversible text encoding of a payload, one code per field
Encode(data) == <<data.data, data.star, data.owner>>
\* getBData: decode the stored body back to the payload
getBData(block) ==
  [data |-> block.body[1], star |-> block.body[2], owner |-> block.body[3]]

\* new Block(data): the chain-assigned fields are unset
Block(data) ==
  [hash |-> Null, height |-> 0, body |-> Encode(data), time |-> 0,
   previousBlockHash |-> Null]

\* JSON.stringify(block): every field, each at a fixed place
JSONstringify(block) ==
  <<Len(block.hash)>> \o block.hash \o <<block.height, block.time>>
    \o block.body \o block.previousBlockHash

\* SHA256: collision-free, a digest stands for its preimage
SHA256(s) == s

\* content hash: the hash of the block with its hash field unset
computeContentHash(block) == SHA256(JSONstringify([block EXCEPT !.hash = Null]))

\* block.validate(): the stored hash equals the recomputed content hash
validate(block) == block.hash = computeContentHash(block)

(* ------------------------------ state ---------------------------------- *)
VARIABLES
  chain,        \* this.chain
  height,       \* this.height
  now,          \* the clock, in seconds
  pending,      \* appends waiting at `await self.validateChain()`, FIFO
  ret,          \* how the call that finished last settled
  mutatedAt,    \* the places of the blocks mutated from outside
  unauthorized  \* a submission the ownership gate rejected has been made

vars == <<chain, height, now, pending, ret, mutatedAt, unauthorized>>

(* --------------------------- validateChain ----------------------------- *)
RECURSIVE validateFrom(_, _)
\* the forEach of validateChain from block i on: one error, tagged with the
\* block's height field, per block that fails validate()
validateFrom(c, i) ==
  IF i > Len(c) THEN << >>
  ELSE (IF validate(c[i]) THEN << >> ELSE <<c[i].height>>) \o validateFrom(c, i + 1)

RECURSIVE validateFirstOnly(_, _)
validateFirstOnly(c, i) ==
  IF i > Len(c) THEN << >>
  ELSE IF validate(c[i]) THEN validateFirstOnly(c, i + 1) ELSE <<c[i].height>>

validateChainTailOnly(c) ==
  IF c = << >> \/ validate(c[Len(c)]) THEN << >> ELSE <<c[Len(c)].height>>
validateChainStopsAtFirst(c) == validateFirstOnly(c, 1)
\* validateChain(): the error log of the whole chain
validateChain(c) == validateFrom(c, 1)

(* ----------------------------- _addBlock ------------------------------- *)
assignFieldsHashFirst(block, c, t) ==
  LET hashed == [block EXCEPT !.height = Len(c), !.time = t]
      b == [hashed EXCEPT !.hash = SHA256(JSONstringify(hashed))]
  IN  IF b.height > 0
        THEN [b EXCEPT !.previousBlockHash = c[b.height].hash]
        ELSE b
\* lines 67-79: height, time, previousBlockHash, then the hash of the block
assignFields(block, c, t) ==
  LET b1 == [block EXCEPT !.height = Len(c), !.time = t]
      b2 == IF b1.height > 0
              THEN [b1 EXCEPT !.previousBlockHash = c[b1.height].hash]
              ELSE b1
  IN  [b2 EXCEPT !.hash = SHA256(JSONstringify(b2))]

canCommitHashOnly(block, errors) == block.hash # Null
canCommitOncePerPayload(block, errors) ==
  /\ block.hash # Null
  /\ Len(errors) = 0
  /\ \A i \in 1..Len(chain) : chain[i].body # block.body
canCommitInverted(block, errors) == block.hash # Null /\ Len(errors) # 0
\* line 84: the block is committed
canCommit(block, errors) == block.hash # Null /\ Len(errors) = 0

unshift(c, block) == <<block>> \o c
\* line 86: self.chain.push(block)
push(c, block) == Append(c, block)

incrementHeightTwice(h) == h + 2
\* line 89: self.height++
incrementHeight(h) == h + 1

(* ----------------------------- submitStar ------------------------------ *)
\* requestMessageOwnershipVerification: `${address}:${seconds}:starRegistry`
messageToBeSigned(address, t) == <<address, t, RegistryTag>>

\* the messages a client may submit for an address
Messages(address) ==
  {messageToBeSigned(address, t) : t \in IssuedTimes}
    \cup {<<address>>, <<address, NonNumeric, RegistryTag>>}

\* parseInt(message.split(':')[1])
timeFromMessageSent(message) ==
  IF Len(message) < 2 \/ message[2] = NonNumeric THEN NaN ELSE message[2]

\* currentTime - timeFromMessageSent
timeElapsed(currentTime, sent) == IF sent = NaN THEN NaN ELSE currentTime - sent

isExpiredAtWindow(elapsed) == elapsed # NaN /\ elapsed >= timeLapseAllowed
\* line 147: timeElapsed > timeLapseAllowed (false for NaN)
isExpired(elapsed) == elapsed # NaN /\ elapsed > timeLapseAllowed

\* lines 147-155: the first reject settles the promise; neither returns
firstRejection(elapsed, bitcoinMessageValid) ==
  IF isExpired(elapsed) THEN "expired"
  ELSE IF ~bitcoinMessageValid THEN "signature"
  ELSE "none"

(* ------------------------------ results -------------------------------- *)
NoResult ==
  [op |-> "none", outcome |-> "none", error |-> "none", block |-> Block(GenesisPayload),
   pushed |-> FALSE, errors |-> << >>, value |-> 0, address |-> 0,
   sigValid |-> FALSE, elapsed |-> 0, alone |-> FALSE, ctor |-> FALSE,
   preHeight |-> 0, preTail |-> Null, preLen |-> 0,
   found |-> 0, stars |-> << >>, message |-> << >>]

\* an append in flight: the block as prepared before the await, the error
\* log validateChain returned, and what the caller has settled so far
addBlockBegin(op, ctor, block, rejection, address, sigValid, elapsed, c, t, q) ==
  [op |-> op, ctor |-> ctor, block |-> assignFields(block, c, t),
   errors |-> validateChain(c), rejection |-> rejection,
   address |-> address, sigValid |-> sigValid, elapsed |-> elapsed,
   alone |-> (q = << >>)]

\* the constructor's initializeChain() has run up to its await
Init ==
  /\ chain = << >>
  /\ height = EmptyHeight
  /\ now = 0
  /\ mutatedAt = {}
  /\ unauthorized = FALSE
  /\ ret = NoResult
  /\ pending = << addBlockBegin("initializeChain", TRUE, Block(GenesisPayload),
                                 "none", 0, FALSE, 0, << >>, 0, << >>) >>

Room == Len(chain) + Len(pending) < MaxChain /\ Len(pending) < MaxPending

(* ------------------------------ actions -------------------------------- *)
initializeChainAlways ==
  /\ Room
  /\ pending' = Append(pending,
         addBlockBegin("initializeChain", FALSE, Block(GenesisPayload),
                       "none", 0, FALSE, 0, chain, now, pending))
  /\ ret' = NoResult
  /\ UNCHANGED <<chain, height, now, mutatedAt, unauthorized>>
\* initializeChain(), called again after construction
initializeChain ==
  /\ IF height = EmptyHeight
       THEN /\ Room
            /\ pending' = Append(pending,
                   addBlockBegin("initializeChain", FALSE, Block(GenesisPayload),
                                 "none", 0, FALSE, 0, chain, now, pending))
            /\ ret' = NoResult
       ELSE /\ ret' = [NoResult EXCEPT !.op = "initializeChain", !.outcome = "resolved"]
            /\ UNCHANGED pending
  /\ UNCHANGED <<chain, height, now, mutatedAt, unauthorized>>

\* submitStar(address, message, signature, star) up to the await in _addBlock
submitStar(address, message, bitcoinMessageValid, star) ==
  LET elapsed == timeElapsed(now, timeFromMessageSent(message))
      rejection == firstRejection(elapsed, bitcoinMessageValid)
  IN  /\ Room
      /\ pending' = Append(pending,
             addBlockBegin("submitStar", FALSE, Block(StarPayload(star, address)),
                           rejection, address, bitcoinMessageValid, elapsed,
                           chain, now, pending))
      /\ unauthorized' = (unauthorized \/ rejection # "none" \/ elapsed = NaN)
      /\ ret' = NoResult
      /\ UNCHANGED <<chain, height, now, mutatedAt>>

\* _addBlock after the await (lines 84-93), then the caller's settlement
addBlockContinue ==
  /\ pending # << >>
  /\ LET e == Head(pending)
         ok == canCommit(e.block, e.errors)
         outcome == IF e.rejection # "none" \/ ~ok THEN "rejected" ELSE "resolved"
         error == IF e.rejection # "none" THEN e.rejection
                  ELSE IF ~ok THEN "addFailed" ELSE "none"
     IN  /\ pending' = Tail(pending)
         /\ chain' = IF ok THEN push(chain, e.block) ELSE chain
         /\ height' = IF ok THEN incrementHeight(height) ELSE height
         /\ ret' = [NoResult EXCEPT
               !.op = e.op, !.outcome = outcome, !.error = error,
               !.block = e.block, !.pushed = ok, !.errors = e.errors,
               !.address = e.address, !.sigValid = e.sigValid,
               !.elapsed = e.elapsed, !.alone = e.alone, !.ctor = e.ctor,
               !.preHeight = height, !.preLen = Len(chain),
               !.preTail = IF chain = << >> THEN Null ELSE chain[Len(chain)].hash]
  /\ UNCHANGED <<now, mutatedAt, unauthorized>>

\* validateChain(), called from outside
callValidateChain ==
  /\ ret' = [NoResult EXCEPT !.op = "validateChain", !.outcome = "resolved",
                             !.errors = validateChain(chain)]
  /\ UNCHANGED <<chain, height, now, pending, mutatedAt, unauthorized>>

\* getChainHeight()
getChainHeight ==
  /\ ret' = [NoResult EXCEPT !.op = "getChainHeight", !.outcome = "resolved",
                             !.value = height]
  /\ UNCHANGED <<chain, height, now, pending, mutatedAt, unauthorized>>

\* the clock advances
Tick ==
  /\ \E t \in ClockTimes : t > now /\ now' = t
  /\ ret' = NoResult
  /\ UNCHANGED <<chain, height, pending, mutatedAt, unauthorized>>

\* the block with one field changed to another value
mutations(b) ==
  {[b EXCEPT !.height = h] : h \in {b.height - 1, b.height + 1} \cap Nat}
    \cup {[b EXCEPT !.time = b.time + 1]}
    \cup {[b EXCEPT !.body[3] = b.body[3] + 1]}
    \cup {[b EXCEPT !.previousBlockHash = ForeignHash]}
    \cup {[b EXCEPT !.hash = ForeignHash]}

\* one field of a committed block is mutated from outside the class
Mutate ==
  /\ Cardinality(mutatedAt) < MaxMutations
  /\ \E i \in (1..Len(chain)) \ mutatedAt : \E b \in mutations(chain[i]) :
        /\ chain' = [chain EXCEPT ![i] = b]
        /\ mutatedAt' = mutatedAt \cup {i}
  /\ ret' = NoResult
  /\ UNCHANGED <<height, now, pending, unauthorized>>

(* ------------------------------ lookups -------------------------------- *)
\* the first place of c whose block satisfies the test, 0 when there is none
firstOf(S) == IF S = {} THEN 0 ELSE CHOOSE i \in S : \A j \in S : i <= j

\* line 184: self.chain.find(blockToFind => hash === blockToFind.hash)
findByHash(c, hash) == firstOf({i \in 1..Len(c) : c[i].hash = hash})

\* line 201: self.chain.filter(p => p.height === height)[0]
filterByHeight(c, h) == firstOf({i \in 1..Len(c) : c[i].height = h})

\* what a lookup settles with: the block found, or a rejection
lookupResult(op, c, i, arg) ==
  [NoResult EXCEPT !.op = op, !.value = arg, !.found = i,
     !.outcome = IF i = 0 THEN "rejected" ELSE "resolved",
     !.error = IF i = 0 THEN "notFound" ELSE "none",
     !.block = IF i = 0 THEN NoResult.block ELSE c[i]]

\* getBlockByHash(hash)
getBlockByHash ==
  /\ \E hash \in {chain[i].hash : i \in 1..Len(chain)} \cup {ForeignHash} :
        ret' = lookupResult("getBlockByHash", chain, findByHash(chain, hash), 0)
  /\ UNCHANGED <<chain, height, now, pending, mutatedAt, unauthorized>>

\* getBlockByHeight(height)
getBlockByHeight ==
  /\ \E h \in EmptyHeight..Len(chain) :
        ret' = lookupResult("getBlockByHeight", chain, filterByHeight(chain, h), h)
  /\ UNCHANGED <<chain, height, now, pending, mutatedAt, unauthorized>>

RECURSIVE starsOf(_, _, _)
\* lines 220-227 once every callback has run: the decoded payloads of the
\* blocks from place i on whose owner is the address, in chain order
starsOf(c, address, i) ==
  IF i > Len(c) THEN << >>
  ELSE (IF getBData(c[i]).owner = address THEN <<getBData(c[i])>> ELSE << >>)
         \o starsOf(c, address, i + 1)

\* the array at line 229: each callback of the forEach is suspended at its
\* `await block.getBData()`, none has pushed yet
starsAtCheck(c, address) == << >>

\* lines 229-233: rejects when the array holds a star, resolves otherwise
starsOutcome(atCheck) == IF Len(atCheck) # 0 THEN "rejected" ELSE "resolved"

\* getStarsByWalletAddress(address): the promise settles at once; the array
\* it resolved with is filled by the callbacks afterwards, and the caller
\* reads it when k of them have pushed
getStarsByWalletAddress ==
  /\ \E address \in Addresses :
       LET all == starsOf(chain, address, 1)
           outcome == starsOutcome(starsAtCheck(chain, address))
       IN  \E k \in 0..Len(all) :
             ret' = [NoResult EXCEPT !.op = "getStarsByWalletAddress",
                       !.outcome = outcome, !.address = address,
                       !.stars = IF outcome = "resolved" THEN SubSeq(all, 1, k)
                                 ELSE << >>]
  /\ UNCHANGED <<chain, height, now, pending, mutatedAt, unauthorized>>

\* requestMessageOwnershipVerification(address)
requestMessageOwnershipVerification ==
  /\ \E address \in Addresses :
        ret' = [NoResult EXCEPT !.op = "requestMessageOwnershipVerification",
                  !.outcome = "resolved", !.address = address,
                  !.message = messageToBeSigned(address, now)]
  /\ UNCHANGED <<chain, height, now, pending, mutatedAt, unauthorized>>

\* a submission with any message and any signature
submitAny ==
  \E address \in Addresses : \E message \in Messages(address) :
    \E bitcoinMessageValid \in BOOLEAN :
      submitStar(address, message, bitcoinMessageValid, StarData)

\* a submission of a message as issued, with a signature that verifies
submitSigned ==
  \E address \in Addresses : \E t \in IssuedTimes :
    submitStar(address, messageToBeSigned(address, t), TRUE, StarData)

Next ==
  \/ initializeChain
  \/ submitAny
  \/ addBlockContinue
  \/ callValidateChain
  \/ getChainHeight
  \/ Tick

\* the class alone: no block is touched from outside
Spec == Init /\ [][Next]_vars

NextMutate ==
  \/ initializeChain
  \/ submitSigned
  \/ addBlockContinue
  \/ callValidateChain
  \/ getChainHeight
  \/ Mutate

\* the class with committed blocks mutated from outside: the clock stands
\* and every submission passes the ownership gate
SpecMutate == Init /\ [][NextMutate]_vars

NextAll ==
  \/ Next
  \/ getBlockByHash
  \/ getBlockByHeight
  \/ getStarsByWalletAddress
  \/ requestMessageOwnershipVerification

\* the class alone, every public method called
SpecAll == Init /\ [][NextAll]_vars

\* the event loop runs every queued continuation
FairSpec == Spec /\ WF_vars(addBlockContinue)

(* ---------------------------- properties ------------------------------- *)
\* the call that has just finished is a submitStar
SubmitFinished == ret.op = "submitStar"
\* the call that has just finished left the chain and the height as they were
NothingAppended ==
  ~ret.pushed /\ Len(chain) = ret.preLen /\ height = ret.preHeight

\* C1: a submitStar whose signature does not verify rejects, and once it has
\* finished no block has been appended: chain and height are as before.
C1_BadSignatureAppendsNothing ==
  (SubmitFinished /\ ~ret.sigValid) =>
    (ret.outcome = "rejected" /\ NothingAppended)

\* C2: a submitStar whose message is more than 300 seconds old rejects with
\* the expiry error and appends no block, whatever the signature is.
C2_ExpiredAppendsNothing ==
  (SubmitFinished /\ ret.elapsed # NaN /\ ret.elapsed > timeLapseAllowed) =>
    (ret.outcome = "rejected" /\ ret.error = "expired" /\ NothingAppended)

\* the submitStar that has just finished passed the gate (signature verifies,
\* at most 300 seconds elapsed) and was made on an initialized chain with no
\* other append in flight
AuthorizedSubmitFinished ==
  /\ SubmitFinished
  /\ ret.sigValid
  /\ ret.elapsed # NaN
  /\ ret.elapsed <= timeLapseAllowed
  /\ ret.alone
  /\ ret.preLen >= 1

SubmittedOnInitialized == \A i \in 2..Len(chain) : chain[i].height >= 1

\* C4: concurrent authorized submissions on an initialized chain leave, once
\* all have finished, blocks whose height fields are contiguous and equal to
\* their index, and a chain validateChain() finds no error in.
C4_ConcurrentHeightsContiguous ==
  (pending = << >> /\ ~unauthorized /\ SubmittedOnInitialized) =>
    /\ \A i \in 1..Len(chain) : chain[i].height = i - 1
    /\ validateChain(chain) = << >>

\* C5: in every reachable state each block after the first carries the
\* stored hash of the block right before it as its previousBlockHash.
C5_HashLinkage ==
  \A i \in 2..Len(chain) : chain[i].previousBlockHash = chain[i - 1].hash

\* the constructor's initializeChain has just finished
CtorInitFinished == ret.op = "initializeChain" /\ ret.ctor

\* what the constructor's initialization leaves
GenesisAlone ==
  /\ ret.outcome = "resolved"
  /\ ret.pushed
  /\ height = 0
  /\ Len(chain) = 1
  /\ chain[1] = ret.block
  /\ chain[1].height = 0
  /\ chain[1].previousBlockHash = Null
  /\ getBData(chain[1]) = GenesisPayload

\* C6: the initialization the constructor starts always completes, is never
\* rejected, and leaves height 0 and exactly one block, the genesis block,
\* with height 0, an unset previousBlockHash and the payload
\* {data: 'Genesis Block'}.
C6_GenesisAlwaysCommitted ==
  /\ [](CtorInitFinished => GenesisAlone)
  /\ <>(CtorInitFinished /\ GenesisAlone)

\* C6 witness: the constructor's initialization has finished
C6_Witness == CtorInitFinished /\ GenesisAlone /\ pending = << >>

\* C7: the cached height is the chain length minus one in every state, and
\* getChainHeight() resolves with that value.
C7_HeightIsLengthMinusOne ==
  /\ height = Len(chain) - 1
  /\ ret.op = "getChainHeight" => ret.value = Len(chain) - 1

\* C7 witness: getChainHeight() answers after an append was rejected on a
\* mutated chain, while another append is in flight
C7_Witness ==
  /\ ret.op = "getChainHeight"
  /\ ret.value = 1
  /\ mutatedAt # {}
  /\ pending # << >>
  /\ Head(pending).errors # << >>

\* C8: after initialization and any number of submitStar calls, with no
\* block mutated from outside, validateChain() returns no error.
C8_ValidAppendsValidate ==
  /\ validateChain(chain) = << >>
  /\ ret.op = "validateChain" => ret.errors = << >>
  /\ \A k \in 1..Len(pending) : pending[k].errors = << >>

\* C8 witness: validateChain() on a chain holding two submitted stars
C8_Witness ==
  /\ ret.op = "validateChain"
  /\ ret.errors = << >>
  /\ Len(chain) = MaxChain
  /\ getBData(chain[Len(chain)]).owner \in Addresses

RECURSIVE heightsOfMutated(_)
\* the stored height fields of the mutated blocks from place i on, in chain order
heightsOfMutated(i) ==
  IF i > Len(chain) THEN << >>
  ELSE (IF i \in mutatedAt THEN <<chain[i].height>> ELSE << >>)
         \o heightsOfMutated(i + 1)

RECURSIVE indexesOfMutated(_)
\* the indexes (0 = genesis) of the mutated blocks from place i on, ascending
indexesOfMutated(i) ==
  IF i > Len(chain) THEN << >>
  ELSE (IF i \in mutatedAt THEN <<i - 1>> ELSE << >>) \o indexesOfMutated(i + 1)

\* C9, as amended: validateChain() returns exactly one error per block that
\* had one field mutated, in chain order, each carrying the stored height
\* field of its block; no error for any other block, and no short-circuit.
C9_OneErrorPerMutatedBlock ==
  /\ validateChain(chain) = heightsOfMutated(1)
  /\ ret.op = "validateChain" => ret.errors = heightsOfMutated(1)

\* C9 witness: two mutated blocks, two errors
C9_Witness ==
  /\ ret.op = "validateChain"
  /\ Cardinality(mutatedAt) = 2
  /\ Len(ret.errors) = 2

\* C9 as stated: the errors identify the mutated blocks by their height in
\* the chain (their index), in ascending order.
C9_ErrorsIdentifyIndexes ==
  ret.op = "validateChain" => ret.errors = indexesOfMutated(1)

\* C10: validateChain() reports every block after the first whose
\* previousBlockHash differs from the stored hash of the block before it,
\* also when that block's own hash matches its content.
C10_LinkageChecked ==
  ret.op = "validateChain" =>
    \A i \in 2..Len(chain) :
      chain[i].previousBlockHash # chain[i - 1].hash =>
        \E k \in 1..Len(ret.errors) : ret.errors[k] = chain[i].height

\* C11: getBlockByHeight(h) and getBlockByHash(chain[h].hash) both find the
\* block stored at index h, for every h from 0 to the chain height.
C11_LookupsAgree ==
  \A h \in 0..height :
    /\ filterByHeight(chain, h) = h + 1
    /\ findByHash(chain, chain[h + 1].hash) = h + 1

\* C12: getBlockByHeight(h) resolves, with the block at index h, exactly
\* when 0 <= h <= chain height, and rejects exactly when h is outside.
C12_HeightLookupTotal ==
  ret.op = "getBlockByHeight" =>
    /\ ret.outcome = "resolved" <=> ret.value \in 0..height
    /\ ret.outcome = "resolved" => ret.found = ret.value + 1

\* the decoded payloads of the blocks an address owns, in chain order
ownedBy(address) ==
  SelectSeq([i \in 1..Len(chain) |-> getBData(chain[i])],
            LAMBDA d : d.owner = address)

\* C13: getStarsByWalletAddress(address) never rejects and resolves with
\* the decoded payloads of exactly the blocks the address owns, in chain
\* order (the empty sequence when it owns none).
C13_StarsOfOwnerReturned ==
  ret.op = "getStarsByWalletAddress" =>
    /\ ret.outcome = "resolved"
    /\ ret.stars = ownedBy(ret.address)

\* C14: no call made after the constructor has returned sees an empty chain
\* or height -1, and a submitStar appended right after genesis has height 1
\* and the genesis hash as its previousBlockHash.
C14_GenesisBeforeAnyCall ==
  /\ ret.op = "getChainHeight" => ret.value >= 0
  /\ ret.op \in {"validateChain", "getChainHeight"} => chain # << >>
  /\ (SubmitFinished /\ ret.pushed /\ ret.preLen = 1) =>
        /\ ret.block.height = 1
        /\ ret.block.previousBlockHash = chain[1].hash

\* an append has just finished
AppendFinished == ret.op \in {"submitStar", "initializeChain"}

\* C15: an append whose validation run reported an error rejects, its block
\* is not pushed, and chain and height are left as they were.
C15_ValidateBeforeCommit ==
  (AppendFinished /\ ret.errors # << >>) =>
    /\ ret.outcome = "rejected"
    /\ NothingAppended
    /\ ret.op = "submitStar" => ret.error # "none"

\* C15 witness: a submitStar made on a mutated chain has been rejected
C15_Witness ==
  /\ SubmitFinished
  /\ ret.errors # << >>
  /\ ret.error = "addFailed"
  /\ Len(chain) = ret.preLen

\* C16: a submitStar whose message carries no numeric issuance time is
\* rejected and appends no block, even when the signature verifies.
C16_MalformedRejected ==
  (SubmitFinished /\ ret.sigValid /\ ret.elapsed = NaN) =>
    (ret.outcome = "rejected" /\ NothingAppended)

\* C17: every step leaves the chain it found as a prefix of the chain it
\* leaves; the chain grows only by a successful append, by exactly one
\* block, and no read operation changes it.
C17_AppendOnly ==
  [][/\ Len(chain') >= Len(chain)
     /\ SubSeq(chain', 1, Len(chain)) = chain
     /\ chain' # chain =>
           /\ Len(chain') = Len(chain) + 1
           /\ ret'.op \in {"submitStar", "initializeChain"}
           /\ ret'.pushed
           /\ chain'[Len(chain')] = ret'.block
     /\ ret'.op \notin {"submitStar", "initializeChain"} =>
           (chain' = chain /\ height' = height)]_vars

\* C17 witness: the third block has been appended behind the two before it
C17_Witness ==
  /\ AppendFinished
  /\ ret.pushed
  /\ ret.preLen = 2
  /\ Len(chain) = 3

\* the submitStar that has just finished passed the gate, like every
\* submission before it, and its address already owns a committed block:
\* the same address, message and signature have been submitted again
ResubmissionFinished ==
  /\ SubmitFinished
  /\ ret.sigValid
  /\ ret.elapsed # NaN
  /\ ret.elapsed <= timeLapseAllowed
  /\ ~unauthorized
  /\ \E i \in 1..ret.preLen : getBData(chain[i]).owner = ret.address

\* C18: a re-submission within the validity window is accepted and appends
\* its own new block.
C18_NoReplayProtection ==
  ResubmissionFinished =>
    /\ ret.outcome = "resolved"
    /\ ret.pushed
    /\ Len(chain) = ret.preLen + 1
    /\ chain[Len(chain)] = ret.block
    /\ getBData(ret.block).owner = ret.address

\* C18 witness: the same submission committed twice, the second one at the
\* last second of the window
C18_Witness ==
  /\ ResubmissionFinished
  /\ ret.pushed
  /\ ret.elapsed = timeLapseAllowed
  /\ Len(ownedBy(ret.address)) = 2

\* C19: initializeChain() called with height >= 0 changes neither the
\* chain, the height nor the appends in flight, so every genesis block of
\* the chain was prepared while the chain was empty.
C19_InitializeIdempotent ==
  /\ [][(height >= 0 /\ initializeChain) =>
          UNCHANGED <<chain, height, pending>>]_vars
  /\ [](\A i \in 1..Len(chain) :
          getBData(chain[i]).data = GenesisText => chain[i].height = 0)

\* C19 witness: initializeChain() has returned on a chain holding stars
C19_Witness ==
  /\ ret.op = "initializeChain"
  /\ ret.outcome = "resolved"
  /\ ~ret.pushed
  /\ Len(chain) = MaxChain
  /\ getBData(chain[1]) = GenesisPayload
  /\ \A i \in 2..Len(chain) : getBData(chain[i]).data # GenesisText

\* some committed block fails its self-validation
SomeBlockInvalid == \E i \in 1..Len(chain) : ~validate(chain[i])

\* the appends in flight that validated the chain without an error
validatedInFlight(q) == Cardinality({k \in 1..Len(q) : q[k].errors = << >>})

\* C20, as amended: once a committed block fails its self-validation, every
\* call made from then on is rejected and appends nothing; the chain grows
\* only by the appends that had validated it before, one block each.
C20_FrozenAfterInFlight ==
  [][SomeBlockInvalid =>
       /\ Len(chain') + validatedInFlight(pending')
            = Len(chain) + validatedInFlight(pending)
       /\ Len(chain') >= Len(chain)
       /\ height' - height = Len(chain') - Len(chain)]_vars

\* C20 witness: an append in flight when the block was mutated has pushed
C20_Witness ==
  /\ SubmitFinished
  /\ ret.pushed
  /\ \E i \in 1..ret.preLen : ~validate(chain[i])

\* C20 as stated: once a committed block fails its self-validation, the
\* chain length and the height never change again.
C20_Frozen ==
  [][SomeBlockInvalid => (Len(chain') = Len(chain) /\ height' = height)]_vars

====
